---- MODULE Spec2Model ----
(***************************************************************************)
(* AI Restaurant Finder: the React client (App, SearchForm, the result     *)
(* components and the axios service layer) as a state machine, and the     *)
(* recommendation engine's Filter/Rank stage.                              *)
(*                                                                         *)
(* JavaScript values are records [t, s, n, l]: the tag t, and the payload  *)
(* of a string (s, its characters), of a number (n) or of an array (l).    *)
(* Strings are sequences of one-character strings, so that emptiness,      *)
(* parsing and substring search are computed and not assumed.              *)
(* Ratings (rate, min_rating) are numbers counted in tenths: 4.5 is 45.    *)
(***************************************************************************)
EXTENDS Integers, Sequences, FiniteSets, TLC

\* ------------------------------------------------------------ JS values

Undefined == [t |-> "undefined", s |-> <<>>, n |-> 0, l |-> <<>>]
Null == [t |-> "null", s |-> <<>>, n |-> 0, l |-> <<>>]
NaN == [t |-> "nan", s |-> <<>>, n |-> 0, l |-> <<>>]
Str(chars) == [t |-> "string", s |-> chars, n |-> 0, l |-> <<>>]
Num(k) == [t |-> "number", s |-> <<>>, n |-> k, l |-> <<>>]
Bool(b) == [t |-> "boolean", s |-> <<>>, n |-> IF b THEN 1 ELSE 0, l |-> <<>>]
Arr(items) == [t |-> "array", s |-> <<>>, n |-> 0, l |-> items]

\* ToBoolean: "", 0, NaN, false, null and undefined are falsy; every array is truthy.
Truthy(v) ==
    CASE v.t = "string" -> v.s /= <<>>
      [] v.t = "number" -> v.n /= 0
      [] v.t = "boolean" -> v.n = 1
      [] v.t = "array" -> TRUE
      [] OTHER -> FALSE

\* v == null (loose): null or undefined.
Nullish(v) == v.t \in {"null", "undefined"}

\* a ?? b
Coalesce(a, b) == IF Nullish(a) THEN b ELSE a

\* a || b
OrElse(a, b) == IF Truthy(a) THEN a ELSE b

\* ------------------------------------------------------------ strings

MsgCannotReach == <<"C", "a", "n", "n", "o", "t", " ", "r", "e", "a", "c", "h", " ", "t", "h", "e", " ", "b", "a", "c", "k", "e", "n", "d", ".", " ", "P", "l", "e", "a", "s", "e", " ", "e", "n", "s", "u", "r", "e", " ", "t", "h", "e", " ", "s", "e", "r", "v", "e", "r", " ", "i", "s", " ", "r", "u", "n", "n", "i", "n", "g", ".">>
MsgEmptyState == <<"N", "o", " ", "r", "e", "c", "o", "m", "m", "e", "n", "d", "a", "t", "i", "o", "n", "s", " ", "r", "e", "t", "u", "r", "n", "e", "d", ".", " ", "T", "r", "y", " ", "r", "e", "l", "a", "x", "i", "n", "g", " ", "f", "i", "l", "t", "e", "r", "s", ".">>
MsgTimeout == <<"t", "i", "m", "e", "o", "u", "t", " ", "o", "f", " ", "3", "0", "0", "0", "0", "m", "s", " ", "e", "x", "c", "e", "e", "d", "e", "d">>
MsgNetwork == <<"N", "e", "t", "w", "o", "r", "k", " ", "E", "r", "r", "o", "r">>
MsgNoData == <<"n", "o", " ", "d", "a", "t", "a", " ", "a", "v", "a", "i", "l", "a", "b", "l", "e">>
Msg500 == <<"R", "e", "q", "u", "e", "s", "t", " ", "f", "a", "i", "l", "e", "d", " ", "w", "i", "t", "h", " ", "s", "t", "a", "t", "u", "s", " ", "c", "o", "d", "e", " ", "5", "0", "0">>

IsDigit(c) == c \in {"0", "1", "2", "3", "4", "5", "6", "7", "8", "9"}

DigitVal(c) ==
    CASE c = "0" -> 0 [] c = "1" -> 1 [] c = "2" -> 2 [] c = "3" -> 3 [] c = "4" -> 4
      [] c = "5" -> 5 [] c = "6" -> 6 [] c = "7" -> 7 [] c = "8" -> 8 [] c = "9" -> 9

DigitChar(d) ==
    CASE d = 0 -> "0" [] d = 1 -> "1" [] d = 2 -> "2" [] d = 3 -> "3" [] d = 4 -> "4"
      [] d = 5 -> "5" [] d = 6 -> "6" [] d = 7 -> "7" [] d = 8 -> "8" [] d = 9 -> "9"

\* The number of leading digits of s.
DigitPrefixLen(s) == Cardinality({k \in 1..Len(s) : \A j \in 1..k : IsDigit(s[j])})

RECURSIVE DecValue(_)
DecValue(ds) ==
    IF ds = <<>> THEN 0
    ELSE DecValue(SubSeq(ds, 1, Len(ds) - 1)) * 10 + DigitVal(ds[Len(ds)])

RECURSIVE DecDigits(_)
DecDigits(k) == IF k < 10 THEN <<DigitChar(k)>> ELSE Append(DecDigits(k \div 10), DigitChar(k % 10))

RECURSIVE SkipWs(_)
SkipWs(s) == IF s /= <<>> /\ s[1] = " " THEN SkipWs(Tail(s)) ELSE s

\* parseInt(s, 10): leading blanks, an optional sign, then the leading digits;
\* NaN when there is no digit.
ParseInt(s) ==
    LET t == SkipWs(s)
        signed == t /= <<>> /\ t[1] \in {"-", "+"}
        u == IF signed THEN Tail(t) ELSE t
        k == DigitPrefixLen(u)
        mag == DecValue(SubSeq(u, 1, k))
    IN  IF k = 0 THEN NaN
        ELSE Num(IF signed /\ t[1] = "-" THEN 0 - mag ELSE mag)

\* parseFloat(s), in tenths: the integer digits, then "." and the fraction digits,
\* of which the first is kept (the texts of the model have at most one).
ParseFloat(s) ==
    LET t == SkipWs(s)
        signed == t /= <<>> /\ t[1] \in {"-", "+"}
        u == IF signed THEN Tail(t) ELSE t
        k == DigitPrefixLen(u)
        rest == SubSeq(u, k + 1, Len(u))
        m == IF rest /= <<>> /\ rest[1] = "." THEN DigitPrefixLen(Tail(rest)) ELSE 0
        mag == DecValue(SubSeq(u, 1, k)) * 10 + (IF m > 0 THEN DigitVal(rest[2]) ELSE 0)
    IN  IF k = 0 /\ m = 0 THEN NaN
        ELSE Num(IF signed /\ t[1] = "-" THEN 0 - mag ELSE mag)

\* ------------------------------------------------------------ SearchForm

Cafe == <<"C", "a", "f", "e">>
CUISINE_OPTIONS == {Cafe}

\* What a type="number" input can hold: "" or the text of a number.
PriceTexts == {<<>>, <<"0">>, <<"1", "2">>, <<"1", ".", "5">>}
RatingTexts == {<<>>, <<"0">>, <<"4", ".", "5">>}

EmptyForm == [place |-> <<>>, cuisine |-> <<>>, max_price |-> <<>>, min_rating |-> <<>>]

\* A variant that tests the parsed number, not the text: it drops an entered 0.
BuildQueryDropsZero(f) ==
    [place |-> Str(f.place),
     cuisine |-> OrElse(Str(f.cuisine), Undefined),
     max_price |-> IF Truthy(ParseInt(f.max_price)) THEN ParseInt(f.max_price) ELSE Undefined,
     min_rating |-> IF Truthy(ParseFloat(f.min_rating)) THEN ParseFloat(f.min_rating) ELSE Undefined]

\* The argument handleSubmit passes to onSearch.
BuildQuery(f) ==
    [place |-> Str(f.place),
     cuisine |-> OrElse(Str(f.cuisine), Undefined),
     max_price |-> IF Truthy(Str(f.max_price)) THEN ParseInt(f.max_price) ELSE Undefined,
     min_rating |-> IF Truthy(Str(f.min_rating)) THEN ParseFloat(f.min_rating) ELSE Undefined]

\* The browser's constraint validation, which runs before the submit event:
\* the select is required; max_price has min="1" (and the default step 1);
\* min_rating has min="0", max="5", step="0.1".
FormValid(f) ==
    /\ f.place /= <<>>
    /\ \/ f.max_price = <<>>
       \/ LET v == ParseFloat(f.max_price) IN v.t = "number" /\ v.n >= 10 /\ v.n % 10 = 0
    /\ \/ f.min_rating = <<>>
       \/ LET v == ParseFloat(f.min_rating) IN v.t = "number" /\ v.n >= 0 /\ v.n <= 50

\* ------------------------------------------------------------ the backend's answers

BTM == <<"B", "T", "M">>
HSR == <<"H", "S", "R">>

NoPlacesBody == [places |-> Undefined]

\* The bodies of GET /places.
PlacesBodies ==
    {[places |-> Undefined], [places |-> Arr(<<>>)], [places |-> Arr(<<BTM, HSR>>)]}

NameA == <<"A">>
NameB == <<"B">>
NameC == <<"C">>

\* Restaurants as the client receives them: a rated and priced one, one whose
\* rating and cost are unknown, and one whose rating and cost are the number 0.
RestaurantPool ==
    {[name |-> NameA, rate |-> Num(45), approx_cost |-> Num(1200)],
     [name |-> NameB, rate |-> Null, approx_cost |-> Undefined],
     [name |-> NameC, rate |-> Num(0), approx_cost |-> Num(0)]}

MaxList == 2

RestaurantLists == UNION {[1..k -> RestaurantPool] : k \in 0..MaxList}

Review == <<"T", "r", "y", " ", "A">>

\* A body of POST /recommend in the shape api.js documents,
\* {restaurants, gemini_review} or {error}, with fields absent, null or empty.
ClientShapeBodies ==
    [error : {Undefined, Str(<<>>), Str(MsgNoData)},
     restaurants : {Undefined, Null} \cup {Arr(l) : l \in RestaurantLists},
     gemini_review : {Undefined, Null, Str(<<>>), Str(Review)},
     candidates : {Undefined},
     narrative : {Undefined},
     fallback : {Undefined}]

\* A body in the engine's wire shape {candidates, narrative, fallback}.
EngineShapeBodies ==
    [error : {Undefined},
     restaurants : {Undefined},
     gemini_review : {Undefined},
     candidates : {Arr(l) : l \in RestaurantLists \ {<<>>}},
     narrative : {Null, Str(Review)},
     fallback : {Bool(FALSE), Bool(TRUE)}]

RecommendBodies == ClientShapeBodies \cup EngineShapeBodies

NoBody ==
    [error |-> Undefined, restaurants |-> Undefined, gemini_review |-> Undefined,
     candidates |-> Undefined, narrative |-> Undefined, fallback |-> Undefined]

Bad == <<"b", "a", "d">>
Srv == <<"s", "r", "v">>

\* What axios rejects with, as handleSearch reads it: err.response.data.detail,
\* err.response.data.error and err.message (undefined where there is no response).
\* (detail is a string for an HTTPException and a list of error objects for a
\* request the backend's validation rejects with 422.)
ValidationDetail == Arr(<<[msg |-> Bad]>>)

HttpErrors ==
    [detail : {Undefined, Str(<<>>), Str(Bad), ValidationDetail},
     error : {Undefined, Str(Srv)},
     message : {Undefined, Str(<<>>), Str(Msg500)}]

NetworkError == [detail |-> Undefined, error |-> Undefined, message |-> Str(MsgNetwork)]

TimeoutError == [detail |-> Undefined, error |-> Undefined, message |-> Str(MsgTimeout)]

NoError == [detail |-> Undefined, error |-> Undefined, message |-> Undefined]

\* axios.create({timeout}), in milliseconds.
ApiTimeout == 30000

\* The step of the model's clock, in milliseconds.
TickMs == 15000

\* ------------------------------------------------------------ RestaurantCard

\* n.toFixed(1) of a number given in tenths.
ToFixed1(tenths) ==
    LET mag == IF tenths < 0 THEN 0 - tenths ELSE tenths
    IN  (IF tenths < 0 THEN <<"-">> ELSE <<>>)
            \o DecDigits(mag \div 10) \o <<".">> \o <<DigitChar(mag % 10)>>

\* The three digits of a group after the first.
Pad3(k) == <<DigitChar(k \div 100), DigitChar((k \div 10) % 10), DigitChar(k % 10)>>

\* n.toLocaleString() of a non-negative integer, in a locale that groups by
\* thousands with a comma (en-US).
RECURSIVE ToLocaleString(_)
ToLocaleString(k) ==
    IF k < 1000 THEN DecDigits(k)
    ELSE ToLocaleString(k \div 1000) \o <<",">> \o Pad3(k % 1000)

\* A variant of the badge guarded by the rating's truthiness.
RatingBadgeTruthy(rate) ==
    IF Truthy(rate) THEN Str(<<"STAR", " ">> \o ToFixed1(rate.n)) ELSE Null

\* {rate != null && <span>★ {rate.toFixed(1)}</span>}: the badge's text, or
\* null where none is rendered. "STAR" stands for the star glyph.
RatingBadge(rate) ==
    IF ~Nullish(rate) THEN Str(<<"STAR", " ">> \o ToFixed1(rate.n)) ELSE Null

PriceNA == <<"P", "r", "i", "c", "e", " ", "N", "/", "A">>

\* {approx_cost != null ? ₹{approx_cost.toLocaleString()} : "Price N/A"}.
\* "RUPEE" stands for the rupee glyph.
PriceTag(cost) ==
    IF ~Nullish(cost) THEN Str(<<"RUPEE">> \o ToLocaleString(cost.n)) ELSE Str(PriceNA)

\* ------------------------------------------------------------ ResultsList

\* A variant of the card's label that shows the index as it is passed.
RankLabelZeroBased(index) == <<"#">> \o DecDigits(index)

\* RestaurantCard: #{index + 1}
RankLabel(index) == <<"#">> \o DecDigits(index + 1)

\* ResultsList: Top {restaurants.length} Matches
Heading(n) == <<"T", "o", "p", " ">> \o DecDigits(n) \o <<" ", "M", "a", "t", "c", "h", "e", "s">>

RendersNothing == [shown |-> FALSE, heading |-> <<>>, cards |-> <<>>]

\* ResultsList({restaurants}): nothing for a missing or empty list, otherwise the
\* heading and restaurants.map((r, idx) => <RestaurantCard restaurant={r} index={idx}/>).
ResultsList(rs) ==
    IF ~Truthy(rs) \/ Len(rs.l) = 0 THEN RendersNothing
    ELSE [shown |-> TRUE,
          heading |-> Heading(Len(rs.l)),
          cards |-> [k \in 1..Len(rs.l) |->
                        [label |-> RankLabel(k - 1), restaurant |-> rs.l[k]]]]

\* ------------------------------------------------------------ the engine: Filter/Rank

Lower(c) ==
    CASE c = "A" -> "a" [] c = "B" -> "b" [] c = "C" -> "c" [] c = "D" -> "d"
      [] c = "E" -> "e" [] c = "F" -> "f" [] c = "G" -> "g" [] c = "H" -> "h"
      [] c = "I" -> "i" [] c = "J" -> "j" [] c = "K" -> "k" [] c = "L" -> "l"
      [] c = "M" -> "m" [] c = "N" -> "n" [] c = "O" -> "o" [] c = "P" -> "p"
      [] c = "Q" -> "q" [] c = "R" -> "r" [] c = "S" -> "s" [] c = "T" -> "t"
      [] c = "U" -> "u" [] c = "V" -> "v" [] c = "W" -> "w" [] c = "X" -> "x"
      [] c = "Y" -> "y" [] c = "Z" -> "z"
      [] OTHER -> c

ToLower(s) == [i \in 1..Len(s) |-> Lower(s[i])]

IsPrefix(p, s) == Len(p) <= Len(s) /\ SubSeq(s, 1, Len(p)) = p

\* Whether s contains sub, found by scanning s from the left.
RECURSIVE Includes(_, _)
Includes(s, sub) ==
    IF IsPrefix(sub, s) THEN TRUE
    ELSE IF s = <<>> THEN FALSE
    ELSE Includes(Tail(s), sub)

Pizza == <<"P", "i", "z", "z", "a">>

\* The records a catalog of the model is made of. Ratings are in tenths; an
\* unknown rating or cost is Undefined.
RecordKinds ==
    {[location |-> BTM, cuisines |-> <<Cafe>>, rate |-> Num(45), approx_cost |-> Num(300), votes |-> 10],
     [location |-> BTM, cuisines |-> <<Pizza, Cafe>>, rate |-> Num(45), approx_cost |-> Num(800), votes |-> 50],
     [location |-> BTM, cuisines |-> <<Pizza>>, rate |-> Num(30), approx_cost |-> Undefined, votes |-> 1000],
     [location |-> BTM, cuisines |-> <<Cafe>>, rate |-> Undefined, approx_cost |-> Num(300), votes |-> 50],
     [location |-> BTM, cuisines |-> <<Cafe>>, rate |-> Num(0), approx_cost |-> Num(0), votes |-> 10],
     [location |-> HSR, cuisines |-> <<Pizza>>, rate |-> Num(45), approx_cost |-> Num(800), votes |-> 1000]}

MaxBase == 3

MaxRepeat == 7

RECURSIVE Repeat(_, _)
Repeat(base, n) == IF n = 0 THEN <<>> ELSE base \o Repeat(base, n - 1)

\* The catalogs of the model: a short sequence of records, alone or repeated
\* MaxRepeat times, so that more records can match than a stage keeps.
Catalogs ==
    {Repeat(base, n) : base \in UNION {[1..k -> RecordKinds] : k \in 0..MaxBase},
                       n \in {1, MaxRepeat}}

\* The catalogs that are not repeated.
ShortCatalogs == {c \in Catalogs : Len(c) <= MaxBase}

\* The Queries of the model.
Queries ==
    [place : {Str(<<"b", "t">>), Str(<<"S", "R">>), Str(<<"x">>)},
     cuisine : {Undefined}, max_price : {Undefined}, min_rating : {Undefined}]
    \cup
    [place : {Str(<<"T", "M">>)},
     cuisine : {Undefined, Str(<<"p", "i", "z">>)},
     max_price : {Undefined, Num(500)},
     min_rating : {Undefined, Num(40)}]

NoQuery == [place |-> Str(<<>>), cuisine |-> Undefined, max_price |-> Undefined,
            min_rating |-> Undefined]

\* The length the primary candidate list is cut to.
TopN == 10

\* The filter predicates; a filter with no supplied value is skipped.
Satisfies(r, q) ==
    /\ Includes(ToLower(r.location), ToLower(q.place.s))
    /\ \/ q.cuisine = Undefined
       \/ \E k \in 1..Len(r.cuisines) :
                Includes(ToLower(r.cuisines[k]), ToLower(q.cuisine.s))
    /\ \/ q.max_price = Undefined
       \/ r.approx_cost /= Undefined /\ r.approx_cost.n <= q.max_price.n
    /\ \/ q.min_rating = Undefined
       \/ r.rate /= Undefined /\ r.rate.n >= q.min_rating.n

\* The positions of the records of cat that satisfy q, in catalog order.
RECURSIVE FilterFrom(_, _, _)
FilterFrom(cat, q, i) ==
    IF i > Len(cat) THEN <<>>
    ELSE (IF Satisfies(cat[i], q) THEN <<i>> ELSE <<>>) \o FilterFrom(cat, q, i + 1)

\* A variant of the sort key that takes an unknown rating for 0.
OutranksUnknownAsZero(a, b) ==
    LET ra == IF a.rate = Undefined THEN 0 ELSE a.rate.n
        rb == IF b.rate = Undefined THEN 0 ELSE b.rate.n
    IN  ra > rb \/ (ra = rb /\ a.votes > b.votes)

\* Whether record a sorts strictly before record b: rate descending, an
\* unknown rating below every known one, then votes descending.
Outranks(a, b) ==
    \/ a.rate /= Undefined /\ b.rate = Undefined
    \/ a.rate /= Undefined /\ b.rate /= Undefined /\ a.rate.n > b.rate.n
    \/ /\ (a.rate = Undefined) = (b.rate = Undefined)
       /\ a.rate = b.rate
       /\ a.votes > b.votes

\* Stable insertion: x, later in the input than all of sorted, goes after
\* every element it does not strictly outrank.
RECURSIVE InsertRanked(_, _, _)
InsertRanked(cat, sorted, x) ==
    IF sorted = <<>> THEN <<x>>
    ELSE IF Outranks(cat[x], cat[sorted[1]]) THEN <<x>> \o sorted
    ELSE <<sorted[1]>> \o InsertRanked(cat, Tail(sorted), x)

RECURSIVE RankFrom(_, _, _)
RankFrom(cat, input, sorted) ==
    IF input = <<>> THEN sorted
    ELSE RankFrom(cat, Tail(input), InsertRanked(cat, sorted, input[1]))

Take(s, n) == SubSeq(s, 1, IF Len(s) < n THEN Len(s) ELSE n)

\* The Filter/Rank stage: filter, order, cut to the first TopN. The
\* candidates are given by their positions in the catalog.
FilterRank(cat, q) == Take(RankFrom(cat, FilterFrom(cat, q, 1), <<>>), TopN)

\* ------------------------------------------------------------ ErrorBanner

NoRecommendations == <<"n", "o", " ", "r", "e", "c", "o", "m", "m", "e", "n", "d", "a", "t", "i", "o", "n", "s">>
TitleNoResults == <<"N", "o", " ", "r", "e", "s", "t", "a", "u", "r", "a", "n", "t", "s", " ", "f", "o", "u", "n", "d">>
TitleWentWrong == <<"S", "o", "m", "e", "t", "h", "i", "n", "g", " ", "w", "e", "n", "t", " ", "w", "r", "o", "n", "g">>
\* (the dash of the hint is written "-")
Hint == <<"T", "r", "y", " ", "b", "r", "o", "a", "d", "e", "n", "i", "n", "g", " ", "y", "o", "u", "r", " ", "s", "e", "a", "r", "c", "h", " ", "-", " ", "r", "e", "l", "a", "x", " ", "t", "h", "e", " ", "p", "r", "i", "c", "e", " ", "l", "i", "m", "i", "t", ",", " ", "l", "o", "w", "e", "r", " ", "t", "h", "e", " ", "m", "i", "n", "i", "m", "u", "m", " ", "r", "a", "t", "i", "n", "g", ",", " ", "o", "r", " ", "p", "i", "c", "k", " ", "a", " ", "d", "i", "f", "f", "e", "r", "e", "n", "t", " ", "l", "o", "c", "a", "t", "i", "o", "n", ".">>

BannerNothing == [kind |-> "nothing", title |-> <<>>, body |-> <<>>]

\* message.toLowerCase of a message that is not a string: the render throws.
BannerThrows == [kind |-> "throws", title |-> <<>>, body |-> <<>>]

\* A variant of the banner that looks for the phrase in the message as it is.
ErrorBannerCaseSensitive(message) ==
    IF ~Truthy(message) THEN BannerNothing
    ELSE IF message.t /= "string" THEN BannerThrows
    ELSE IF Includes(message.s, NoRecommendations)
         THEN [kind |-> "noResults", title |-> TitleNoResults, body |-> Hint]
         ELSE [kind |-> "error", title |-> TitleWentWrong, body |-> message.s]

\* ErrorBanner({message}): the heading and the text under it.
ErrorBanner(message) ==
    IF ~Truthy(message) THEN BannerNothing
    ELSE IF message.t /= "string" THEN BannerThrows
    ELSE IF Includes(ToLower(message.s), NoRecommendations)
         THEN [kind |-> "noResults", title |-> TitleNoResults, body |-> Hint]
         ELSE [kind |-> "error", title |-> TitleWentWrong, body |-> message.s]

\* ------------------------------------------------------------ the engine: Fallback Policy

\* The length the fallback candidate list is cut to.
FallbackN == 20

AllPositions(cat) == [i \in 1..Len(cat) |-> i]

PlaceOnly(q) == [q EXCEPT !.cuisine = Undefined, !.max_price = Undefined,
                          !.min_rating = Undefined]

\* A variant of the policy that still holds the records to the Query's place.
FallbackKeepsPlace(cat, q) ==
    Take(RankFrom(cat, FilterFrom(cat, PlaceOnly(q), 1), <<>>), FallbackN)

\* The Fallback Policy: the whole catalog, every filter of the Query ignored,
\* in the order of the Filter/Rank stage, cut to the first FallbackN.
Fallback(cat, q) == Take(RankFrom(cat, AllPositions(cat), <<>>), FallbackN)

\* ------------------------------------------------------------ the engine: Completion, Assembler

\* The Failure kinds of the Completion Client.
FailureKinds ==
    {"Timeout", "Unauthorized", "RateLimited", "ServiceUnavailable", "MalformedResponse"}

NoCompletion == [status |-> "none", text |-> <<>>, failure |-> "none"]

\* What complete(prompt, timeout) can return: the text, or a Failure.
CompletionOutcomes ==
    {[status |-> "text", text |-> Review, failure |-> "none"]}
    \cup {[status |-> "failure", text |-> <<>>, failure |-> k] : k \in FailureKinds}

NoResult ==
    [kind |-> "none", candidates |-> <<>>, narrative |-> Null, fallback |-> FALSE,
     error |-> <<>>]

\* A variant of the assembler that fails the request when the completion fails.
AssembleHardFailure(cands, fb, outcome) ==
    IF cands = <<>> \/ outcome.status = "failure"
    THEN [kind |-> "error", candidates |-> <<>>, narrative |-> Null, fallback |-> FALSE,
          error |-> MsgNoData]
    ELSE [kind |-> "result", candidates |-> cands, narrative |-> Str(outcome.text),
          fallback |-> fb, error |-> <<>>]

\* The Response Assembler, over the CandidateList (with its flag) and the
\* Completion Client's outcome.
Assemble(cands, fb, outcome) ==
    IF cands = <<>>
    THEN [kind |-> "error", candidates |-> <<>>, narrative |-> Null, fallback |-> FALSE,
          error |-> MsgNoData]
    ELSE [kind |-> "result", candidates |-> cands,
          narrative |-> IF outcome.status = "text" THEN Str(outcome.text) ELSE Null,
          fallback |-> fb, error |-> <<>>]

\* ------------------------------------------------------------ state

VARIABLES
    restaurants,    \* App: null, or the array of the last successful answer
    geminiReview,   \* App: null, or the narrative
    loading,        \* App
    error,          \* App: null, or what the error banner shows
    hasSearched,    \* App
    places,         \* SearchForm: the options of the place selector
    placesLoading,  \* SearchForm
    placesPending,  \* whether the mount effect's fetchPlaces() is unsettled
    placesElapsed,  \* the time the unsettled fetchPlaces() has taken
    placesLast,     \* how fetchPlaces() ended: [kind, data]
    form,           \* SearchForm: the four field texts
    inflight,       \* the unsettled fetchRecommendations calls: [params, elapsed]
    last,           \* the latest call: pending, or how it ended: [kind, data, err]
    previous,       \* how the call before the latest one ended, "none" if there is none
    catalog,        \* engine: the Catalog Store's records, loaded once
    query,          \* engine: the Query being processed
    candidates,     \* engine: the CandidateList, as catalog positions
    fallback,       \* engine: the CandidateList's flag: produced by the Fallback Policy
    completion,     \* engine: the Completion Client's outcome
    result,         \* engine: the RecommendationResult
    stage           \* engine: "idle", "ranked", "selected", "completed", "assembled"

vars ==
    <<restaurants, geminiReview, loading, error, hasSearched, places, placesLoading,
      placesPending, placesElapsed, placesLast, form, inflight, last, previous, catalog, query, candidates, fallback,
      completion, result, stage>>

engineVars == <<catalog, query, candidates, fallback, completion, result, stage>>

appVars ==
    <<restaurants, geminiReview, loading, error, hasSearched, inflight, last, previous>>

placesVars == <<places, placesLoading, placesPending, placesElapsed, placesLast>>

formVars == <<placesVars, form>>

ClientInit ==
    /\ restaurants = Null
    /\ geminiReview = Null
    /\ loading = FALSE
    /\ error = Null
    /\ hasSearched = FALSE
    /\ places = <<>>
    /\ placesLoading = TRUE
    /\ placesPending = TRUE
    /\ placesElapsed = 0
    /\ placesLast = [kind |-> "pending", data |-> NoPlacesBody]
    /\ form = EmptyForm
    /\ inflight = <<>>
    /\ last = [kind |-> "none", data |-> NoBody, err |-> NoError]
    /\ previous = "none"

EngineIdle ==
    /\ query = NoQuery
    /\ candidates = <<>>
    /\ fallback = FALSE
    /\ completion = NoCompletion
    /\ result = NoResult
    /\ stage = "idle"

\* The client, the engine left aside with an empty catalog.
Init == ClientInit /\ catalog = <<>> /\ EngineIdle

\* The engine after the catalog is loaded, the client left aside.
EngineInit == ClientInit /\ catalog \in Catalogs /\ EngineIdle

\* The same, over the catalogs that are not repeated.
PipelineInit == ClientInit /\ catalog \in ShortCatalogs /\ EngineIdle

\* ------------------------------------------------------------ the view

\* App: {loading && ...}
ShowSpinner == loading

\* App: {!loading && error && <ErrorBanner message={error} />}
ShowErrorBanner == ~loading /\ Truthy(error)

\* App: {!loading && !error && restaurants && (<GeminiReview/> <ResultsList/>)}
ShowResults == ~loading /\ ~Truthy(error) /\ Truthy(restaurants)

\* GeminiReview: if (!review) return null
ShowNarrative == ShowResults /\ Truthy(geminiReview)

\* ResultsList: if (!restaurants || restaurants.length === 0) return null;
\* otherwise one card per element, in order.
Cards ==
    IF ShowResults /\ restaurants.t = "array" THEN restaurants.l ELSE <<>>

\* The render of the error banner throws: main.jsx's ErrorBoundary replaces the
\* tree, and this mounting of App is over.
Crashed == ShowErrorBanner /\ ErrorBanner(error).kind = "throws"

\* What the ResultsList of the view shows.
ResultsView == IF ShowResults THEN ResultsList(restaurants) ELSE RendersNothing

\* App: {!loading && !error && hasSearched && restaurants?.length === 0 && ...}
ShowEmptyState ==
    /\ ~loading
    /\ ~Truthy(error)
    /\ hasSearched
    /\ restaurants.t = "array"
    /\ Len(restaurants.l) = 0

\* App: {!hasSearched && !loading && ...}
ShowInitialPrompt == ~hasSearched /\ ~loading

\* What the two banners of the view show.
ErrorBannerView == IF ShowErrorBanner THEN ErrorBanner(error) ELSE BannerNothing

EmptyStateView == IF ShowEmptyState THEN ErrorBanner(Str(MsgEmptyState)) ELSE BannerNothing

\* A variant of the button that is disabled only while loading.
SubmitDisabledWhileLoading == loading

\* A variant of the button that is disabled only for an empty place.
SubmitDisabledEmptyPlace == ~Truthy(Str(form.place))

\* SearchForm: <button type="submit" disabled={loading || !form.place}>
SubmitDisabled == loading \/ ~Truthy(Str(form.place))

\* ------------------------------------------------------------ SearchForm's operations

\* useEffect: fetchPlaces().then(setPlaces) ... .finally(() => setPlacesLoading(false))
PlacesResolved(body) ==
    /\ placesPending
    /\ places' = Coalesce(body.places, Arr(<<>>)).l
    /\ placesLoading' = FALSE
    /\ placesPending' = FALSE
    /\ placesElapsed' = 0
    /\ placesLast' = [kind |-> "data", data |-> body]
    /\ UNCHANGED <<form, appVars, engineVars>>

\* A variant of the effect that ends the loading in then() only.
PlacesRejectedNoFinally ==
    /\ placesPending
    /\ places' = <<>>
    /\ placesLoading' = placesLoading
    /\ placesPending' = FALSE
    /\ placesElapsed' = 0
    /\ placesLast' = [kind |-> "rejected", data |-> NoPlacesBody]
    /\ UNCHANGED <<form, appVars, engineVars>>

\* useEffect: .catch(() => setPlaces([])) .finally(() => setPlacesLoading(false))
PlacesRejected ==
    /\ placesPending
    /\ places' = <<>>
    /\ placesLoading' = FALSE
    /\ placesPending' = FALSE
    /\ placesElapsed' = 0
    /\ placesLast' = [kind |-> "rejected", data |-> NoPlacesBody]
    /\ UNCHANGED <<form, appVars, engineVars>>

\* handleChange on the place selector: disabled while the places load; its
\* placeholder option is disabled, so only an option of places can be chosen.
ChangePlace(i) ==
    /\ ~Crashed
    /\ ~placesLoading
    /\ i \in 1..Len(places)
    /\ form' = [form EXCEPT !.place = places[i]]
    /\ UNCHANGED <<placesVars, appVars, engineVars>>

\* handleChange on the other three fields.
ChangeField(name, value) ==
    /\ ~Crashed
    /\ form' = [form EXCEPT ![name] = value]
    /\ UNCHANGED <<placesVars, appVars, engineVars>>

\* ------------------------------------------------------------ App's operations

\* A variant of handleSearch without setError(null).
HandleSearchKeepsError(formData) ==
    /\ loading' = TRUE
    /\ error' = error
    /\ restaurants' = Null
    /\ geminiReview' = Null
    /\ hasSearched' = TRUE
    /\ inflight' = Append(inflight, [params |-> formData, elapsed |-> 0])
    /\ last' = [kind |-> "pending", data |-> NoBody, err |-> NoError]
    /\ previous' = last.kind

\* handleSearch up to its await: the five setters, then the request.
HandleSearch(formData) ==
    /\ loading' = TRUE
    /\ error' = Null
    /\ restaurants' = Null
    /\ geminiReview' = Null
    /\ hasSearched' = TRUE
    /\ inflight' = Append(inflight, [params |-> formData, elapsed |-> 0])
    /\ last' = [kind |-> "pending", data |-> NoBody, err |-> NoError]
    /\ previous' = last.kind

\* handleSubmit, reached through the enabled submit button of a valid form.
Submit ==
    /\ ~Crashed
    /\ ~SubmitDisabled
    /\ FormValid(form)
    /\ HandleSearch(BuildQuery(form))
    /\ UNCHANGED <<formVars, engineVars>>

\* Variants of the try block: one that takes a missing narrative for a failure,
\* one whose error branch does not return, one that reports the error only when
\* the answer has no restaurants, and one that reads the engine's field names.
OnDataNarrativeRequired(data, cur) ==
    IF Truthy(data.error) \/ Nullish(data.gemini_review)
    THEN [cur EXCEPT !.error = OrElse(data.error, Str(MsgCannotReach))]
    ELSE [cur EXCEPT !.restaurants = Coalesce(data.restaurants, Arr(<<>>)),
                     !.geminiReview = Coalesce(data.gemini_review, Null)]

OnDataNoReturn(data, cur) ==
    [cur EXCEPT !.error = IF Truthy(data.error) THEN data.error ELSE @,
                !.restaurants = Coalesce(data.restaurants, Arr(<<>>)),
                !.geminiReview = Coalesce(data.gemini_review, Null)]

OnDataErrorOnlyIfEmpty(data, cur) ==
    IF Truthy(data.error) /\ ~Truthy(data.restaurants)
    THEN [cur EXCEPT !.error = data.error]
    ELSE [cur EXCEPT !.restaurants = Coalesce(data.restaurants, Arr(<<>>)),
                     !.geminiReview = Coalesce(data.gemini_review, Null)]

OnDataReadsCandidates(data, cur) ==
    IF Truthy(data.error)
    THEN [cur EXCEPT !.error = data.error]
    ELSE [cur EXCEPT !.restaurants = Coalesce(data.candidates, Arr(<<>>)),
                     !.geminiReview = Coalesce(data.narrative, Null)]

\* handleSearch's try block after the await, on the answer's body.
OnData(data, cur) ==
    IF Truthy(data.error)
    THEN [cur EXCEPT !.error = data.error]
    ELSE [cur EXCEPT !.restaurants = Coalesce(data.restaurants, Arr(<<>>)),
                     !.geminiReview = Coalesce(data.gemini_review, Null)]

\* handleSearch's catch block.
OnError(err, cur) ==
    [cur EXCEPT !.error = OrElse(err.detail, OrElse(err.error,
                              OrElse(err.message, Str(MsgCannotReach))))]

Current == [error |-> error, restaurants |-> restaurants, geminiReview |-> geminiReview]

Without(q, i) == SubSeq(q, 1, i - 1) \o SubSeq(q, i + 1, Len(q))

\* The rest of handleSearch once call i settles: the try or catch block's
\* setters, then finally { setLoading(false) }.
Settle(i, new, outcome) ==
    /\ error' = new.error
    /\ restaurants' = new.restaurants
    /\ geminiReview' = new.geminiReview
    /\ loading' = FALSE
    /\ inflight' = Without(inflight, i)
    /\ last' = outcome
    /\ UNCHANGED <<hasSearched, previous, formVars, engineVars>>

\* POST /recommend answers 2xx with a body.
RecommendResolved(i, body) ==
    /\ i \in 1..Len(inflight)
    /\ Settle(i, OnData(body, Current), [kind |-> "data", data |-> body, err |-> NoError])

\* The request fails: an HTTP error status, or no answer at all.
RecommendRejected(i, err) ==
    /\ i \in 1..Len(inflight)
    /\ Settle(i, OnError(err, Current), [kind |-> "rejected", data |-> NoBody, err |-> err])

\* Whether the time of the client's timeout has passed for a call.
TimerExpired(call) == call.elapsed >= ApiTimeout

\* A variant of the client created without {timeout}: no call is ever due.
TimeoutDueNever(call) == FALSE

\* Whether axios aborts the call: a timeout is set and its time has passed.
TimeoutDue(call) == ApiTimeout > 0 /\ TimerExpired(call)

\* The client's timeout fires.
RecommendTimeout(i) ==
    /\ i \in 1..Len(inflight)
    /\ TimeoutDue(inflight[i])
    /\ Settle(i, OnError(TimeoutError, Current),
              [kind |-> "timeout", data |-> NoBody, err |-> TimeoutError])

\* The client's timeout fires for GET /places: the effect's catch and finally.
PlacesTimeout ==
    /\ placesPending
    /\ TimeoutDue([elapsed |-> placesElapsed])
    /\ places' = <<>>
    /\ placesLoading' = FALSE
    /\ placesPending' = FALSE
    /\ placesElapsed' = 0
    /\ placesLast' = [kind |-> "timeout", data |-> NoPlacesBody]
    /\ UNCHANGED <<form, appVars, engineVars>>

\* Time passes for the unsettled calls; a due timeout fires before more passes.
Tick ==
    /\ inflight /= <<>> \/ placesPending
    /\ \A i \in 1..Len(inflight) : ~TimerExpired(inflight[i])
    /\ placesPending => ~TimerExpired([elapsed |-> placesElapsed])
    /\ inflight' = [i \in 1..Len(inflight) |->
                        [inflight[i] EXCEPT !.elapsed = @ + TickMs]]
    /\ placesElapsed' = IF placesPending THEN placesElapsed + TickMs ELSE placesElapsed
    /\ UNCHANGED <<restaurants, geminiReview, loading, error, hasSearched, last, previous,
                   places, placesLoading, placesPending, placesLast, form, engineVars>>

\* The steps of the client, the answers of POST /recommend drawn from bodies
\* and its failures from errs.
NextWith(bodies, errs) ==
    \/ \E body \in PlacesBodies : PlacesResolved(body)
    \/ PlacesRejected
    \/ \E i \in 1..Len(places) : ChangePlace(i)
    \/ \E v \in {<<>>} \cup CUISINE_OPTIONS : ChangeField("cuisine", v)
    \/ \E v \in PriceTexts : ChangeField("max_price", v)
    \/ \E v \in RatingTexts : ChangeField("min_rating", v)
    \/ Submit
    \/ \E i \in 1..Len(inflight), body \in bodies : RecommendResolved(i, body)
    \/ \E i \in 1..Len(inflight), err \in errs : RecommendRejected(i, err)
    \/ \E i \in 1..Len(inflight) : RecommendTimeout(i)
    \/ PlacesTimeout
    \/ Tick

Next == NextWith(RecommendBodies, HttpErrors \cup {NetworkError})

Spec == Init /\ [][Next]_vars

\* One answer of each kind: cards with a narrative, cards without, an empty
\* list, an {error}; and one failure with a response and one without.
LiveBodies ==
    {b \in ClientShapeBodies :
        \/ /\ b.error = Undefined
           /\ b.restaurants \in {Arr(<<>>), Arr(<<CHOOSE r \in RestaurantPool : r.name = NameA>>)}
           /\ b.gemini_review \in {Null, Str(Review)}
        \/ b.error = Str(MsgNoData) /\ b.restaurants = Undefined /\ b.gemini_review = Undefined}

LiveErrors == {NetworkError, [detail |-> Str(Bad), error |-> Undefined, message |-> Str(Msg500)]}

NextLive == NextWith(LiveBodies, LiveErrors)

\* The event loop runs a due timer, and time passes; the server owes nothing.
FairSpec ==
    /\ Init
    /\ [][NextLive]_vars
    /\ WF_vars(Tick)
    /\ WF_vars(\E i \in 1..Len(inflight) : RecommendTimeout(i))
    /\ WF_vars(PlacesTimeout)

\* ------------------------------------------------------------ the engine's steps

\* A Query arrives and the Filter/Rank stage produces its CandidateList.
FilterRankStage(q) ==
    /\ stage = "idle"
    /\ query' = q
    /\ candidates' = FilterRank(catalog, q)
    /\ stage' = "ranked"
    /\ UNCHANGED <<catalog, fallback, completion, result, appVars, formVars>>

\* The primary list is not empty: it is the CandidateList.
KeepPrimary ==
    /\ stage = "ranked"
    /\ candidates /= <<>>
    /\ stage' = "selected"
    /\ UNCHANGED <<catalog, query, candidates, fallback, completion, result, appVars,
                   formVars>>

\* The primary list is empty: the Fallback Policy produces the CandidateList.
FallbackStage ==
    /\ stage = "ranked"
    /\ candidates = <<>>
    /\ candidates' = Fallback(catalog, query)
    /\ fallback' = TRUE
    /\ stage' = "selected"
    /\ UNCHANGED <<catalog, query, completion, result, appVars, formVars>>

\* The prompt is sent and the Completion Client returns its text or a Failure.
Complete(outcome) ==
    /\ stage = "selected"
    /\ completion' = outcome
    /\ stage' = "completed"
    /\ UNCHANGED <<catalog, query, candidates, fallback, result, appVars, formVars>>

\* The Response Assembler produces the RecommendationResult.
AssembleStage ==
    /\ stage = "completed"
    /\ result' = Assemble(candidates, fallback, completion)
    /\ stage' = "assembled"
    /\ UNCHANGED <<catalog, query, candidates, fallback, completion, appVars, formVars>>

\* The result is handed back and the Query discarded.
Respond ==
    /\ stage = "assembled"
    /\ query' = NoQuery
    /\ candidates' = <<>>
    /\ fallback' = FALSE
    /\ completion' = NoCompletion
    /\ result' = NoResult
    /\ stage' = "idle"
    /\ UNCHANGED <<catalog, appVars, formVars>>

\* Candidate selection: the Filter/Rank stage and the Fallback Policy.
EngineNext ==
    \/ \E q \in Queries : FilterRankStage(q)
    \/ KeepPrimary
    \/ FallbackStage

EngineSpec == EngineInit /\ [][EngineNext]_vars

\* The whole pipeline, query after query.
PipelineNext ==
    \/ EngineNext
    \/ \E outcome \in CompletionOutcomes : Complete(outcome)
    \/ AssembleStage
    \/ Respond

PipelineSpec == PipelineInit /\ [][PipelineNext]_vars

\* ------------------------------------------------------------ properties

Completed == last.kind = "data"

NonEmptyArray(v) == v.t = "array" /\ Len(v.l) >= 1

\* C1: a completed search whose answer carries a non-empty restaurant list, a
\* null or absent narrative and no error field leaves error = null,
\* restaurants = the received list and loading = false, and the view shows
\* the cards with no narrative panel and no error banner.
C1_Case ==
    /\ Completed
    /\ last.data.error = Undefined
    /\ NonEmptyArray(last.data.restaurants)
    /\ Nullish(last.data.gemini_review)

C1_FailureIsolation ==
    C1_Case =>
        /\ error = Null
        /\ restaurants = last.data.restaurants
        /\ loading = FALSE
        /\ Cards = last.data.restaurants.l
        /\ ~ShowNarrative
        /\ ~ShowErrorBanner

C1_Witness == C1_Case /\ Len(Cards) = 2 /\ last.data.gemini_review = Null

\* C2: whenever no search is loading, the outcome is a structured result or a
\* single error, never a mix: error /= null implies restaurants = null and
\* geminiReview = null, and the error banner is never displayed together
\* with the narrative panel or result cards.
C2_ResultOrError ==
    ~loading =>
        /\ error /= Null => restaurants = Null /\ geminiReview = Null
        /\ ~(ShowErrorBanner /\ (ShowNarrative \/ Cards /= <<>>))

C2_Witness ==
    /\ Completed
    /\ error = Str(MsgNoData)
    /\ NonEmptyArray(last.data.restaurants)
    /\ last.data.gemini_review = Str(Review)

\* C3: whenever the narrative panel is displayed, at least one restaurant card
\* is displayed and the "No recommendations returned" banner is not.
C3_NarrativeOverCards == ShowNarrative => Len(Cards) >= 1 /\ ~ShowEmptyState

\* C4: a completed search whose answer's error field is a non-empty string
\* leaves error equal to that string, restaurants and geminiReview null
\* whatever else the answer carries, loading = false, and no cards or
\* narrative displayed.
C4_Case == Completed /\ last.data.error.t = "string" /\ last.data.error.s /= <<>>

C4_ErrorResult ==
    C4_Case =>
        /\ error = last.data.error
        /\ restaurants = Null
        /\ geminiReview = Null
        /\ loading = FALSE
        /\ Cards = <<>>
        /\ ~ShowNarrative

C4_Witness ==
    /\ C4_Case
    /\ NonEmptyArray(last.data.restaurants)
    /\ Truthy(last.data.gemini_review)
    /\ ShowErrorBanner

\* C5 as stated: a completed search whose answer has the wire shape
\* {candidates, narrative, fallback} with n >= 1 candidates displays exactly
\* those n cards and, when narrative is a non-empty string, that narrative,
\* and never the "No recommendations returned" banner.
C5_EngineShapeDisplayed ==
    (Completed /\ last.data \in EngineShapeBodies) =>
        /\ Cards = last.data.candidates.l
        /\ Truthy(last.data.narrative) => ShowNarrative /\ geminiReview = last.data.narrative
        /\ ~ShowEmptyState

\* C5 amended: the shape the client consumes is {restaurants, gemini_review}:
\* a completed search whose answer has no error and n >= 1 restaurants
\* displays exactly those n cards and, when gemini_review is a non-empty
\* string, that narrative, and never the "No recommendations returned"
\* banner; an answer in the shape {candidates, narrative, fallback} displays
\* no card and no narrative, and that banner.
C5_ClientCase ==
    /\ Completed
    /\ ~Truthy(last.data.error)
    /\ NonEmptyArray(last.data.restaurants)

C5_ClientShapeDisplayed ==
    /\ C5_ClientCase =>
        /\ Cards = last.data.restaurants.l
        /\ Truthy(last.data.gemini_review) =>
                ShowNarrative /\ geminiReview = last.data.gemini_review
        /\ ~ShowEmptyState
    /\ (Completed /\ last.data \in EngineShapeBodies) =>
        /\ Cards = <<>>
        /\ ~ShowNarrative
        /\ ShowEmptyState

C5_Witness ==
    /\ C5_ClientCase
    /\ Len(Cards) = 2
    /\ ShowNarrative
    /\ geminiReview = Str(Review)

\* C6: the query handleSubmit builds carries only the fields supplied: place
\* unchanged; cuisine, max_price and min_rating undefined exactly when their
\* field is "", and otherwise the entered text, parseInt(max_price, 10) and
\* parseFloat(min_rating) (in tenths); an entered "0" is the number 0.
ExpectedQuery(f) ==
    [place |-> Str(f.place),
     cuisine |-> IF f.cuisine = <<>> THEN Undefined ELSE Str(f.cuisine),
     max_price |->
        CASE f.max_price = <<>> -> Undefined
          [] f.max_price = <<"0">> -> Num(0)
          [] f.max_price = <<"1", "2">> -> Num(12)
          [] f.max_price = <<"1", ".", "5">> -> Num(1),
     min_rating |->
        CASE f.min_rating = <<>> -> Undefined
          [] f.min_rating = <<"0">> -> Num(0)
          [] f.min_rating = <<"4", ".", "5">> -> Num(45)]

C6_QueryOnlySupplied ==
    /\ [](BuildQuery(form) = ExpectedQuery(form))
    /\ [][Len(inflight') > Len(inflight) =>
            inflight'[Len(inflight')].params = ExpectedQuery(form)]_vars

C6_Witness ==
    /\ inflight /= <<>>
    /\ inflight[1].params.min_rating = Num(0)
    /\ inflight[1].params.max_price = Undefined
    /\ inflight[1].params.cuisine = Str(Cafe)

\* C7: the submit control is disabled whenever form.place is "" and whenever
\* a search is loading, and every fetchRecommendations call carries a
\* non-empty place.
C7_NoEmptyPlace ==
    /\ (form.place = <<>> \/ loading) => SubmitDisabled
    /\ \A i \in 1..Len(inflight) :
            inflight[i].params.place.t = "string" /\ inflight[i].params.place.s /= <<>>

C7_Witness == inflight /= <<>> /\ inflight[1].params.place = Str(HSR) /\ SubmitDisabled

\* C8: every displayed card shows a rating badge iff rate is not null or
\* undefined, and "Price N/A" iff approx_cost is null or undefined; a known 0
\* is shown as "STAR 0.0" and "RUPEE 0", so an absent value and 0 never look alike.
CardShowsUnknown(r) ==
    /\ RatingBadge(r.rate) /= Null <=> r.rate.t \notin {"null", "undefined"}
    /\ PriceTag(r.approx_cost) = Str(PriceNA) <=> r.approx_cost.t \in {"null", "undefined"}
    /\ r.rate = Num(0) => RatingBadge(r.rate) = Str(<<"STAR", " ", "0", ".", "0">>)
    /\ r.approx_cost = Num(0) => PriceTag(r.approx_cost) = Str(<<"RUPEE", "0">>)
    /\ r.rate = Num(45) => RatingBadge(r.rate) = Str(<<"STAR", " ", "4", ".", "5">>)
    /\ r.approx_cost = Num(1200) =>
            PriceTag(r.approx_cost) = Str(<<"RUPEE", "1", ",", "2", "0", "0">>)

C8_UnknownNeverZero == \A i \in 1..Len(Cards) : CardShowsUnknown(Cards[i])

C8_Witness ==
    /\ Len(Cards) = 2
    /\ Cards[1].rate = Num(0) /\ Cards[1].approx_cost = Num(0)
    /\ Cards[2].rate = Null /\ Cards[2].approx_cost = Undefined

\* C9: loading is true exactly while a call is unsettled; while it is true
\* neither an error banner, nor result content, nor the initial prompt is
\* displayed; and every started search eventually reaches loading = false,
\* by the answer, the failure or the 30 000 ms timeout.
C9_LoadingCoversCall ==
    /\ [](loading <=> inflight /= <<>>)
    /\ [](loading =>
            /\ ~ShowErrorBanner
            /\ ~ShowResults /\ ~ShowNarrative /\ Cards = <<>>
            /\ ~ShowEmptyState
            /\ ~ShowInitialPrompt)
    /\ (loading ~> ~loading)

C9_Witness == last.kind = "timeout" /\ ~loading /\ error = Str(MsgTimeout)

\* C10: for a Query with no optional filter, the candidate list is exactly
\* the records whose location contains place, ordered by rate descending
\* (unknown below every known rating), then votes descending, then catalog
\* order, cut to the first 10.
NoOptionalFilter(q) ==
    q.cuisine = Undefined /\ q.max_price = Undefined /\ q.min_rating = Undefined

LocationContains(r, place) ==
    \E a \in 1..(Len(r.location) + 1), b \in 0..Len(r.location) :
        ToLower(SubSeq(r.location, a, b)) = ToLower(place)

Matching == {i \in 1..Len(catalog) : LocationContains(catalog[i], query.place.s)}

\* Position i comes before position j in the stated order.
RanksBefore(i, j) ==
    LET a == catalog[i]
        b == catalog[j]
    IN  IF (a.rate = Undefined) /= (b.rate = Undefined) THEN b.rate = Undefined
        ELSE IF a.rate /= b.rate THEN a.rate.n > b.rate.n
        ELSE IF a.votes /= b.votes THEN a.votes > b.votes
        ELSE i < j

C10_Case == stage = "ranked" /\ NoOptionalFilter(query)

C10_PrimaryList ==
    C10_Case =>
        /\ \A k \in 1..Len(candidates) : candidates[k] \in Matching
        /\ \A k \in 1..(Len(candidates) - 1) : RanksBefore(candidates[k], candidates[k + 1])
        /\ Len(candidates) = (IF Cardinality(Matching) < 10 THEN Cardinality(Matching) ELSE 10)
        /\ \A m \in Matching :
                \/ \E k \in 1..Len(candidates) : candidates[k] = m
                \/ \A k \in 1..Len(candidates) : RanksBefore(candidates[k], m)

C10_Witness ==
    /\ C10_Case
    /\ Cardinality(Matching) > 10
    /\ Len(candidates) = 10
    /\ Len(catalog) > Cardinality(Matching)
    /\ \E k \in 1..9 :
            /\ catalog[candidates[k]].rate = Num(0)
            /\ catalog[candidates[k + 1]].rate = Undefined

\* C11: the result is a fallback result if and only if the primary filtered
\* set is empty and the catalog is not; the fallback candidate list has at
\* most 20 records, is the top of the whole catalog whatever the Query's
\* filters, and is flagged as a fallback result.
PrimaryEmpty == \A i \in 1..Len(catalog) : ~Satisfies(catalog[i], query)

Everything == 1..Len(catalog)

C12_Case == stage = "assembled"

C12_ThreeResults ==
    C12_Case =>
        /\ result.kind \in {"result", "error"}
        /\ (candidates /= <<>> /\ completion.status = "text") =>
                /\ result.kind = "result"
                /\ result.candidates = candidates
                /\ result.narrative = Str(completion.text)
                /\ result.fallback = fallback
        /\ (candidates /= <<>> /\ completion.status = "failure") =>
                /\ completion.failure \in FailureKinds
                /\ result.kind = "result"
                /\ result.candidates = candidates
                /\ result.narrative = Null
                /\ result.fallback = fallback
        /\ candidates = <<>> =>
                /\ result.kind = "error"
                /\ result.candidates = <<>>
                /\ result.narrative = Null
                /\ result.error = MsgNoData
        /\ result.kind = "error" => catalog = <<>>

C12_Witness ==
    /\ C12_Case
    /\ completion.failure = "RateLimited"
    /\ fallback
    /\ Len(candidates) > 1
    /\ result.kind = "result"
    /\ result.narrative = Null
    /\ result.fallback

\* C13: once a request has failed by exception, error is the first non-empty
\* value of the body's detail, the body's error, the exception's message and
\* the fixed text, error is a non-empty string, and restaurants and
\* geminiReview are null.
Failed == inflight = <<>> /\ last.kind \in {"rejected", "timeout"}

NonEmptyValue(v) == v \notin {Undefined, Null, Str(<<>>)}

FirstNonEmpty ==
    IF NonEmptyValue(last.err.detail) THEN last.err.detail
    ELSE IF NonEmptyValue(last.err.error) THEN last.err.error
    ELSE IF NonEmptyValue(last.err.message) THEN last.err.message
    ELSE Str(MsgCannotReach)

C13_FailureMessage ==
    Failed =>
        /\ error = FirstNonEmpty
        /\ error.t = "string"
        /\ Len(error.s) > 0
        /\ restaurants = Null
        /\ geminiReview = Null

\* The same, where the value chosen is a string.
C13_StringMessage == (Failed /\ FirstNonEmpty.t = "string") => C13_FailureMessage

\* C14: for a list of n restaurants, n > 0, the result view shows the heading
\* "Top n Matches" and n cards, the card at 0-based position i showing
\* restaurants[i] under the label #i+1, in the order received; for an empty or
\* null list ResultsList renders nothing.
Numeral == <<"1", "2", "3", "4", "5", "6", "7", "8", "9">>

C14_Case == ShowResults /\ restaurants.l /= <<>>

C14_OrderAndCount ==
    /\ C14_Case =>
        LET n == Len(restaurants.l) IN
        /\ ResultsView.shown
        /\ ResultsView.heading = <<"T", "o", "p", " ", Numeral[n], " ", "M", "a", "t", "c", "h", "e", "s">>
        /\ Len(ResultsView.cards) = n
        /\ \A i \in 0..(n - 1) :
                /\ ResultsView.cards[i + 1].restaurant = restaurants.l[i + 1]
                /\ ResultsView.cards[i + 1].label = <<"#", Numeral[i + 1]>>
        /\ last.kind = "data" => restaurants.l = last.data.restaurants.l
    /\ restaurants.l = <<>> => ~ResultsView.shown
    /\ ~ResultsList(Null).shown
    /\ ~ResultsList(Arr(<<>>)).shown

C14_Witness ==
    /\ C14_Case
    /\ Len(restaurants.l) = 2
    /\ restaurants.l[1].name = NameB
    /\ restaurants.l[2].name = NameA
    /\ ResultsView.cards[2].label = <<"#", "2">>
    /\ ResultsView.cards[2].restaurant.name = NameA

\* C15: handleSearch sets error, restaurants and geminiReview to null before
\* the request is issued, so what a completed search shows is determined by
\* its own response alone; hasSearched never returns to false and the initial
\* prompt is never shown once a search has started.
Settled == inflight = <<>> /\ last.kind \in {"data", "rejected", "timeout"}

OwnOutcome ==
    /\ (last.kind = "data" /\ Truthy(last.data.error)) =>
            /\ error = last.data.error
            /\ restaurants = Null
            /\ geminiReview = Null
    /\ (last.kind = "data" /\ ~Truthy(last.data.error)) =>
            /\ error = Null
            /\ restaurants = (IF last.data.restaurants \in {Null, Undefined}
                              THEN Arr(<<>>) ELSE last.data.restaurants)
            /\ geminiReview = (IF last.data.gemini_review \in {Null, Undefined}
                               THEN Null ELSE last.data.gemini_review)
    /\ last.kind \in {"rejected", "timeout"} =>
            /\ error = FirstNonEmpty
            /\ restaurants = Null
            /\ geminiReview = Null

SearchStarts == Len(inflight') > Len(inflight)

C15_FreshOutcome ==
    /\ [](Settled => OwnOutcome)
    /\ [](hasSearched => ~ShowInitialPrompt)
    /\ [][SearchStarts => (error' = Null /\ restaurants' = Null /\ geminiReview' = Null)]_vars
    /\ [][hasSearched => hasSearched']_vars

C15_Witness ==
    /\ Settled
    /\ previous = "rejected"
    /\ last.kind = "data"
    /\ error = Null
    /\ NonEmptyArray(restaurants)
    /\ ~ShowErrorBanner
    /\ ~ShowInitialPrompt

\* C16: at most one recommendation request is in flight: a search starts only
\* while loading is false, loading is true as long as the request is
\* unsettled, and so the call that settles is always the latest search's.
C16_OneInFlight ==
    /\ [](Len(inflight) <= 1)
    /\ [](loading <=> inflight /= <<>>)
    /\ [](~SubmitDisabled => inflight = <<>>)
    /\ [][SearchStarts => (~loading /\ inflight = <<>>)]_vars
    /\ [][Len(inflight') < Len(inflight) => (last.kind = "pending" /\ inflight' = <<>>)]_vars

C16_Witness ==
    /\ Len(inflight) = 1
    /\ previous /= "none"
    /\ loading
    /\ FormValid(form)
    /\ form.place /= <<>>
    /\ SubmitDisabled

\* C17: the error banner shows a message under "Something went wrong" as it
\* is, unless the message contains "no recommendations" in any letter case:
\* then it shows "No restaurants found" and the fixed hint in place of the
\* message; for a null or empty message it renders nothing; so a backend
\* error without the phrase, such as "no data available", is shown unchanged.
CaseOf(c) ==
    CASE c = "n" -> {"n", "N"} [] c = "o" -> {"o", "O"} [] c = "r" -> {"r", "R"}
      [] c = "e" -> {"e", "E"} [] c = "c" -> {"c", "C"} [] c = "m" -> {"m", "M"}
      [] c = "d" -> {"d", "D"} [] c = "a" -> {"a", "A"} [] c = "t" -> {"t", "T"}
      [] c = "i" -> {"i", "I"} [] c = "s" -> {"s", "S"} [] OTHER -> {c}

Phrase == <<"n", "o", " ", "r", "e", "c", "o", "m", "m", "e", "n", "d", "a", "t", "i", "o", "n", "s">>

HasPhrase(m) ==
    \E at \in 0..(Len(m) - Len(Phrase)) :
        \A k \in 1..Len(Phrase) : m[at + k] \in CaseOf(Phrase[k])

Shows(banner, message) ==
    IF HasPhrase(message)
    THEN /\ banner.title = <<"N", "o", " ", "r", "e", "s", "t", "a", "u", "r", "a", "n", "t", "s", " ", "f", "o", "u", "n", "d">>
         /\ banner.body = Hint
         /\ banner.body /= message
    ELSE /\ banner.title = <<"S", "o", "m", "e", "t", "h", "i", "n", "g", " ", "w", "e", "n", "t", " ", "w", "r", "o", "n", "g">>
         /\ banner.body = message

C17_BannerText ==
    /\ (ShowErrorBanner /\ error.t = "string") => Shows(ErrorBannerView, error.s)
    /\ ShowEmptyState => Shows(EmptyStateView, MsgEmptyState) /\ HasPhrase(MsgEmptyState)
    /\ (Settled /\ last.kind = "data" /\ last.data.error = Str(MsgNoData)) =>
            /\ ShowErrorBanner
            /\ ~HasPhrase(MsgNoData)
            /\ ErrorBannerView.body = MsgNoData
    /\ ~ShowErrorBanner => ErrorBannerView.kind = "nothing"
    /\ ErrorBanner(Null).kind = "nothing"
    /\ ErrorBanner(Str(<<>>)).kind = "nothing"

C17_Witness ==
    /\ ShowEmptyState
    /\ EmptyStateView.kind = "noResults"
    /\ EmptyStateView.body = Hint
    /\ previous = "data"
    /\ ErrorBanner(Str(MsgNoData)).body = MsgNoData

\* C18: after SearchForm mounts, placesLoading becomes false and stays false,
\* whether fetchPlaces succeeds or fails; after a failure, or an answer without
\* a places field, places is the empty list; the place selector is disabled
\* while placesLoading is true; form.place is the empty string or a member of
\* places; and while places is empty no search is submitted.
PlaceSelectDisabled == placesLoading

InPlaces(p) == \E i \in 1..Len(places) : places[i] = p

PlacesOutcome ==
    /\ placesLast.kind \in {"rejected", "timeout"} => places = <<>>
    /\ (placesLast.kind = "data" /\ placesLast.data.places = Undefined) => places = <<>>
    /\ (placesLast.kind = "data" /\ placesLast.data.places /= Undefined) =>
            places = placesLast.data.places.l
    /\ placesLast.kind = "pending" <=> placesLoading

C18_PlacesLoad ==
    /\ <>[](~placesLoading)
    /\ []PlacesOutcome
    /\ [](form.place = <<>> \/ InPlaces(form.place))
    /\ [](places = <<>> => (SubmitDisabled /\ inflight = <<>> /\ ~hasSearched))
    /\ [][form.place' /= form.place => ~PlaceSelectDisabled]_vars
    /\ [][SearchStarts => InPlaces(form.place)]_vars

C18_Witness ==
    /\ placesLast.kind = "timeout"
    /\ ~placesLoading
    /\ places = <<>>
    /\ form.cuisine /= <<>>
    /\ form.place = <<>>
    /\ SubmitDisabled

====
